---- MODULE Spec2Model ----
(***************************************************************************)
(* PR review notifier (src/app/main.py): the webhook dispatcher            *)
(* handle_pr_event with its two handlers, the approval search, the label   *)
(* removal and the OAuth login flow github_auth.                           *)
(*                                                                         *)
(* A request handler is a coroutine: it runs without interruption up to   *)
(* the next outbound call it awaits, so each action below is the code      *)
(* between two awaits.  Every outbound call is recorded, in order, in the  *)
(* handling task's call log when it is issued; the reply it gets (or the   *)
(* exception it raises) is the input of the next action.                   *)
(***************************************************************************)
EXTENDS Integers, Sequences, FiniteSets, TLC

\* ------------------------------------------------------------- bounds
\* issue numbers are 1..MaxIssue
MaxIssue == 2
\* the search reply's total_count is 0..MaxCount
MaxCount == 2
\* the ids insert_new_review of src/app.py may return are 1..MaxReviewId
MaxReviewId == 2

\* ------------------------------------------------------------- config
\* app/config.py is not part of the sources: the values are placeholders,
\* only their identity matters.
DEFAULT_LABEL_NAME == "needs-review"
DEFAULT_SLACK_CHANNEL == "#reviews"
REQUIRED_APPROVES == 2
OWNER_NAME == "owner"
REPO_NAME == "repo"
\* the config of src/app.py
BASE_URL == "https://bot.example/"

\* ------------------------------------------------------------- payloads
\* A JSON object's key is either absent or holds a value: <<>> or <<v>>.
None == <<>>
Some(v) == <<v>>
Has(o) == o # None
Get(o) == o[1]

Issues == 1..MaxIssue
Titles == {"Fix login"}
Urls == {"https://github.com/owner/repo/pull/1"}
Logins == {"alice"}
LabelNames == {DEFAULT_LABEL_NAME, "bug"}
ReviewStates == {"approved", "commented"}

Opt(S) == {None} \cup {Some(v) : v \in S}

Users == [login : Opt(Logins)]
PullRequests ==
    [number : Opt(Issues), title : Opt(Titles), html_url : Opt(Urls), user : Opt(Users)]
Labels == [name : Opt(LabelNames)]
Reviews == [state : Opt(ReviewStates)]

FullPullRequest ==
    [number |-> Some(1), title |-> Some("Fix login"),
     html_url |-> Some("https://github.com/owner/repo/pull/1"),
     user |-> Some([login |-> Some("alice")])]

\* The JSON bodies GitHub posts: a "labeled" event carries label and
\* pull_request, a "submitted" event review and pull_request; any of their keys
\* may be absent.  Events of another kind, or without an action, come with
\* every combination of the top-level keys.
LabeledPayloads ==
    [action : {Some("labeled")}, label : Opt(Labels),
     pull_request : Opt(PullRequests), review : {None}]
SubmittedPayloads ==
    [action : {Some("submitted")}, label : {None},
     pull_request : Opt(PullRequests), review : Opt(Reviews)]
OtherPayloads ==
    [action : {None, Some("opened")},
     label : {None, Some([name |-> Some(DEFAULT_LABEL_NAME)])},
     pull_request : {None, Some(FullPullRequest)},
     review : {None, Some([state |-> Some("approved")])}]
Payloads == LabeledPayloads \cup SubmittedPayloads \cup OtherPayloads

EmptyPayload == [action |-> None, label |-> None, pull_request |-> None, review |-> None]

\* Whether the key at a path is there (data['a']['b'] raises KeyError otherwise).
Present(data, path) ==
    CASE path = "action" -> Has(data.action)
      [] path = "label" -> Has(data.label)
      [] path = "label.name" -> Has(data.label) /\ Has(Get(data.label).name)
      [] path = "pull_request" -> Has(data.pull_request)
      [] path = "pull_request.number" ->
            Has(data.pull_request) /\ Has(Get(data.pull_request).number)
      [] path = "pull_request.title" ->
            Has(data.pull_request) /\ Has(Get(data.pull_request).title)
      [] path = "pull_request.html_url" ->
            Has(data.pull_request) /\ Has(Get(data.pull_request).html_url)
      [] path = "pull_request.user" ->
            Has(data.pull_request) /\ Has(Get(data.pull_request).user)
      [] path = "pull_request.user.login" ->
            /\ Has(data.pull_request)
            /\ Has(Get(data.pull_request).user)
            /\ Has(Get(Get(data.pull_request).user).login)
      [] path = "review" -> Has(data.review)
      [] path = "review.state" -> Has(data.review) /\ Has(Get(data.review).state)
      [] OTHER -> FALSE

\* Direct key accesses made in order: the index of the first one that raises
\* KeyError, or 0 when all succeed.
FirstMissing(data, accesses) ==
    LET bad == {i \in 1..Len(accesses) : ~Present(data, accesses[i])}
    IN  IF bad = {} THEN 0 ELSE CHOOSE i \in bad : \A j \in bad : i <= j

\* The keys touched by those accesses, the one that raised included.
KeysRead(data, accesses) ==
    LET k == FirstMissing(data, accesses)
        n == IF k = 0 THEN Len(accesses) ELSE k
    IN  {accesses[i] : i \in 1..n}

\* ------------------------------------------------------------- messages
\* Formatted text is the sequence of its literal and interpolated pieces.
Contains(text, piece) == \E i \in 1..Len(text) : text[i] = piece

\* main.py 32-33
LabeledMessage(title, user, page_url) ==
    <<"@here PR _", title, "_ by *", user, "* is waiting for review <", page_url, ">">>

\* main.py 50-51
ReadyMessage(pr_title) ==
    <<":green_check_mark: PR _", pr_title, "_ has ", ToString(REQUIRED_APPROVES),
      " approves and can be merged!">>

\* ------------------------------------------------------------- outbound calls
\* Notifier.send_message(message, channel=...)
SendCall(message, channel) ==
    [op |-> "chat.postMessage", channel |-> channel, text |-> message]

\* main.py 70-83: the search request of is_pr_approved
SearchUrl(pr_title) ==
    <<"search/issues?q=", pr_title, "+repo:", OWNER_NAME, "/", REPO_NAME,
      "+is:pr+is:open+review:approved">>
SearchCall(pr_title) == [op |-> "GET", url |-> SearchUrl(pr_title)]

\* main.py 89-99: the request of delete_label
DeleteCall(issue_number) ==
    [op |-> "DELETE",
     url |-> <<"repos/", OWNER_NAME, "/", REPO_NAME, "/issues/", ToString(issue_number),
               "/labels/", DEFAULT_LABEL_NAME>>]

IsSend(c) == c.op = "chat.postMessage"
IsSearch(c) == c.op = "GET"
IsDelete(c) == c.op = "DELETE"

Log(level, msg) == [level |-> level, msg |-> msg]

\* ------------------------------------------------------------- replies
\* What an outbound call comes back with: an exception raised by the transport,
\* or a response.
TransportError == [kind |-> "error"]

\* What a response's body is to resp.json():
\*   "object"     a JSON object, with or without the key the code reads
\*   "value"      JSON that is no object (an array, a string, null)
\*   "malformed"  declared as JSON and not decodable
\*   "html"       of another content type (a gateway's error page)
Bodies == {"object", "value", "malformed", "html"}

\* The search reply's body: a JSON object with a total_count or (an API error
\* body) without one, or no JSON object.
SearchReplies ==
    {TransportError}
        \cup [kind : {"response"}, body : {"object"}, total_count : Opt(0..MaxCount)]
        \cup [kind : {"response"}, body : Bodies \ {"object"}, total_count : {None}]

\* The DELETE reply's status and body: a JSON object with or without a message
\* or, with an error status (the body of a 200 and of a 404 is not read), no
\* JSON object.
DeleteStatuses == {200, 404, 403, 500}
DeleteReplies ==
    {TransportError}
        \cup [kind : {"response"}, status : DeleteStatuses, body : {"object"},
              message : Opt({"Forbidden"})]
        \cup [kind : {"response"}, status : DeleteStatuses \ {200, 404},
              body : Bodies \ {"object"}, message : {None}]

\* The chat client's send either returns or raises.
NotifierReplies == {TransportError, [kind |-> "response"]}

\* GitHub's side of the label DELETE: 200 removes a label that is there, 404
\* answers for one that is not; an error status or a transport failure can
\* come at any time.
GithubDeleteReplies(labelled, issue) ==
    {r \in DeleteReplies :
        r.kind = "response" =>
            /\ (r.status = 200 => issue \in labelled)
            /\ (r.status = 404 => issue \notin labelled)}

GithubAfterDelete(labelled, issue, reply) ==
    IF reply.kind = "response" /\ reply.status = 200 THEN labelled \ {issue} ELSE labelled

\* ------------------------------------------------------------- state
\* req[t]: the webhook request task t is handling
\*   pc        "idle" | "send_labeled" | "search" | "delete" | "send_ready"
\*             (suspended in that outbound call) | "done" (handle_pr_event
\*             returned) | "failed" (it raised)
\*   data      the request's JSON body
\*   reads     the payload keys the handler has accessed
\*   calls     the outbound calls issued so far, in order
\*   replies   what the calls that have come back came back with, in order
\*   logs      the log records written so far, in order
\*   response  what handle_pr_event returned
\*   exc       the exception it raised
\* labelled: the issues that carry the review label on GitHub
\* session: the browser's session, as github_auth sees and changes it
\* auth: the /auth request being handled
\*   pc        "idle" | "exchange" (suspended in get_access_token) | "done"
\*             (github_auth returned) | "failed" (it raised)
\*   query     the request's query string
\*   reply     what the token exchange came back with
\*   response  what github_auth returned
\* hc: the healthcheck task
\*   pc        "created" (scheduled at startup, not yet run) | "get" (suspended
\*             in the GET to the monitoring endpoint) | "sleep" (suspended in
\*             asyncio.sleep) | "exited" (healthcheck returned) | "crashed" (it
\*             raised)
\*   endpoint  config.HEALTHCHECK_ENDPOINT, set or not
\*   pinged    whether a GET has been issued
\*   timer     the delay of the sleep it is suspended in
\*   reply     what its last GET came back with
\*   logged    the last log record it wrote
VARIABLES req, labelled, session, auth, hc

NoResponse == [status |-> 0, text |-> ""]
\* main.py 66: web.Response(text='Ok')
OkResponse == [status |-> 200, text |-> "Ok"]

NoException == [type |-> "", arg |-> ""]
\* data[...][key] on an absent key; the transport failing
KeyError(key) == [type |-> "KeyError", arg |-> key]
ClientError == [type |-> "ClientError", arg |-> ""]
\* subscripting a list, a string or None with a key
TypeError == [type |-> "TypeError", arg |-> ""]
\* resp.json() on a body that does not decode, or is not declared as JSON
JSONDecodeError == [type |-> "JSONDecodeError", arg |-> ""]
ContentTypeError == [type |-> "ContentTypeError", arg |-> ""]

\* (await resp.json())[key] on a body that does not give the key
BodyError(body, key) ==
    CASE body = "object" -> KeyError(key)
      [] body = "value" -> TypeError
      [] body = "malformed" -> JSONDecodeError
      [] body = "html" -> ContentTypeError

\* app is the dispatcher that serves the request: the one of src/app/main.py
\* or the one of src/app.py.
Idle ==
    [pc |-> "idle", app |-> "", data |-> EmptyPayload, reads |-> {}, calls |-> <<>>,
     replies |-> <<>>, logs |-> <<>>, response |-> NoResponse, exc |-> NoException]

\* The task's state as the handler starts on a request body.
Started(data) == [Idle EXCEPT !.pc = "running", !.app = "app/main.py", !.data = data]

Raise(r, exc) == [r EXCEPT !.pc = "failed", !.exc = exc]
\* the KeyError of the first of the accesses that finds its key absent
RaiseMissing(r, accesses) == Raise(r, KeyError(accesses[FirstMissing(r.data, accesses)]))
Replied(r, reply) == [r EXCEPT !.replies = Append(@, reply)]
Returned(r) == [r EXCEPT !.pc = "returned"]
Call(r, pc, call) == [r EXCEPT !.pc = pc, !.calls = Append(@, call)]
Logged(r, level, msg) == [r EXCEPT !.logs = Append(@, Log(level, msg))]
Accessed(r, accesses) == [r EXCEPT !.reads = @ \cup KeysRead(r.data, accesses)]

\* ------------------------------------------------------------- handlers
\* main.py 24-30, in the order the keys are accessed
LabeledAccesses ==
    <<"label", "pull_request", "pull_request.number", "pull_request.title",
      "pull_request.html_url", "pull_request.user", "pull_request.user.login",
      "label.name">>

\* _handle_labeled with the message built on a link other than the PR's
\* html_url (as the dispatcher of src/app.py does with its accept link)
_handle_labeled_accept_url(r) ==
    LET r1 == Accessed(r, LabeledAccesses)
    IN  IF FirstMissing(r.data, LabeledAccesses) # 0 THEN RaiseMissing(r1, LabeledAccesses)
        ELSE LET label == Get(r.data.label)
                 pr == Get(r.data.pull_request)
                 title == Get(pr.title)
                 page_url == Get(pr.html_url)
                 user == Get(Get(pr.user).login)
             IN  IF Get(label.name) = DEFAULT_LABEL_NAME
                 THEN Call(Logged(r1, "debug", <<"Sending notification about ", page_url>>),
                           "send_labeled",
                           SendCall(LabeledMessage(title, user, "accept/1"),
                                    DEFAULT_SLACK_CHANNEL))
                 ELSE Returned(r1)

\* _handle_labeled without the test on the label's name
_handle_labeled_any_label(r) ==
    LET r1 == Accessed(r, LabeledAccesses)
    IN  IF FirstMissing(r.data, LabeledAccesses) # 0 THEN RaiseMissing(r1, LabeledAccesses)
        ELSE LET pr == Get(r.data.pull_request)
                 title == Get(pr.title)
                 page_url == Get(pr.html_url)
                 user == Get(Get(pr.user).login)
             IN  Call(Logged(r1, "debug", <<"Sending notification about ", page_url>>),
                      "send_labeled",
                      SendCall(LabeledMessage(title, user, page_url),
                               DEFAULT_SLACK_CHANNEL))

\* _handle_labeled looking at the label's name first and at the pull request
\* only when the name is the configured one
_handle_labeled_label_first(r) ==
    LET LabelAccesses == <<"label", "label.name">>
        r0 == Accessed(r, LabelAccesses)
        r1 == Accessed(r, LabeledAccesses)
    IN  IF FirstMissing(r.data, LabelAccesses) # 0 THEN RaiseMissing(r0, LabelAccesses)
        ELSE IF Get(Get(r.data.label).name) # DEFAULT_LABEL_NAME THEN Returned(r0)
        ELSE IF FirstMissing(r.data, LabeledAccesses) # 0
        THEN RaiseMissing(r1, LabeledAccesses)
        ELSE LET pr == Get(r.data.pull_request)
                 title == Get(pr.title)
                 page_url == Get(pr.html_url)
                 user == Get(Get(pr.user).login)
             IN  Call(Logged(r1, "debug", <<"Sending notification about ", page_url>>),
                      "send_labeled",
                      SendCall(LabeledMessage(title, user, page_url),
                               DEFAULT_SLACK_CHANNEL))

\* main.py 23-36, up to the awaited send
_handle_labeled(r) ==
    LET r1 == Accessed(r, LabeledAccesses)
    IN  IF FirstMissing(r.data, LabeledAccesses) # 0 THEN RaiseMissing(r1, LabeledAccesses)
        ELSE LET label == Get(r.data.label)
                 pr == Get(r.data.pull_request)
                 title == Get(pr.title)
                 page_url == Get(pr.html_url)
                 user == Get(Get(pr.user).login)
             IN  IF Get(label.name) = DEFAULT_LABEL_NAME
                 THEN Call(Logged(r1, "debug", <<"Sending notification about ", page_url>>),
                           "send_labeled",
                           SendCall(LabeledMessage(title, user, page_url),
                                    DEFAULT_SLACK_CHANNEL))
                 ELSE Returned(r1)

\* main.py 40-41
ReviewedAccesses == <<"review", "review.state", "pull_request", "pull_request.number">>
\* main.py 43
TitleAccesses == <<"pull_request", "pull_request.title">>

\* _handle_reviewed without the test on the review's state
_handle_reviewed_any_state(r) ==
    LET r1 == Accessed(r, ReviewedAccesses)
    IN  IF FirstMissing(r.data, ReviewedAccesses) # 0 THEN RaiseMissing(r1, ReviewedAccesses)
        ELSE LET r2 == Accessed(r1, TitleAccesses)
             IN  IF FirstMissing(r.data, TitleAccesses) # 0 THEN RaiseMissing(r2, TitleAccesses)
                 ELSE LET pr_title == Get(Get(r.data.pull_request).title)
                      IN  Call(Logged(r2, "debug",
                                      <<"Checking if ", pr_title, " is approved: ">>
                                      \o SearchUrl(pr_title)),
                               "search", SearchCall(pr_title))

\* main.py 39-44 and 70-83, up to the awaited search request
_handle_reviewed(r) ==
    LET r1 == Accessed(r, ReviewedAccesses)
    IN  IF FirstMissing(r.data, ReviewedAccesses) # 0 THEN RaiseMissing(r1, ReviewedAccesses)
        ELSE IF Get(Get(r.data.review).state) = "approved"
        THEN LET r2 == Accessed(r1, TitleAccesses)
             IN  IF FirstMissing(r.data, TitleAccesses) # 0 THEN RaiseMissing(r2, TitleAccesses)
                 ELSE LET pr_title == Get(Get(r.data.pull_request).title)
                      IN  Call(Logged(r2, "debug",
                                      <<"Checking if ", pr_title, " is approved: ">>
                                      \o SearchUrl(pr_title)),
                               "search", SearchCall(pr_title))
        ELSE Returned(r1)

\* is_pr_approved testing that the count is there, not that it is non-zero
is_pr_approved_count_present(reply) ==
    IF reply.kind = "error" THEN [raised |-> TRUE, exc |-> ClientError, value |-> FALSE]
    ELSE IF ~Has(reply.total_count)
    THEN [raised |-> TRUE, exc |-> BodyError(reply.body, "total_count"), value |-> FALSE]
    ELSE [raised |-> FALSE, exc |-> NoException, value |-> TRUE]

\* is_pr_approved holding the count against the number of approves required
is_pr_approved_threshold(reply) ==
    IF reply.kind = "error" THEN [raised |-> TRUE, exc |-> ClientError, value |-> FALSE]
    ELSE IF ~Has(reply.total_count)
    THEN [raised |-> TRUE, exc |-> BodyError(reply.body, "total_count"), value |-> FALSE]
    ELSE [raised |-> FALSE, exc |-> NoException,
          value |-> Get(reply.total_count) >= REQUIRED_APPROVES]

\* main.py 84-85: the value is_pr_approved returns for a search reply, unless
\* the request, the JSON decoding or the key access raised
is_pr_approved(reply) ==
    IF reply.kind = "error" THEN [raised |-> TRUE, exc |-> ClientError, value |-> FALSE]
    ELSE IF ~Has(reply.total_count)
    THEN [raised |-> TRUE, exc |-> BodyError(reply.body, "total_count"), value |-> FALSE]
    ELSE [raised |-> FALSE, exc |-> NoException, value |-> Get(reply.total_count) # 0]

\* _handle_reviewed deleting the label of a fixed issue (as accept_pr_review
\* of src/app.py does), not of the payload's
_handle_reviewed_searched_fixed_issue(r, reply) ==
    LET pr_ready_to_merge == is_pr_approved(reply)
        pr_title == Get(Get(r.data.pull_request).title)
    IN  IF pr_ready_to_merge.raised THEN Raise(r, pr_ready_to_merge.exc)
        ELSE IF pr_ready_to_merge.value
        THEN Call(Logged(r, "info",
                         <<"We have ", ToString(REQUIRED_APPROVES), " approves for pr ",
                           pr_title, ", removing label">>),
                  "delete", DeleteCall(1))
        ELSE Returned(r)

\* main.py 44-48 and 89-99: from the search reply up to the awaited DELETE
_handle_reviewed_searched(r, reply) ==
    LET pr_ready_to_merge == is_pr_approved(reply)
        issue_number == Get(Get(r.data.pull_request).number)
        pr_title == Get(Get(r.data.pull_request).title)
    IN  IF pr_ready_to_merge.raised THEN Raise(r, pr_ready_to_merge.exc)
        ELSE IF pr_ready_to_merge.value
        THEN Call(Logged(r, "info",
                         <<"We have ", ToString(REQUIRED_APPROVES), " approves for pr ",
                           pr_title, ", removing label">>),
                  "delete", DeleteCall(issue_number))
        ELSE Returned(r)

\* main.py 99-106: what delete_label does with the DELETE's reply; reading
\* the message of a body that has none raises: KeyError on a JSON object,
\* TypeError on other JSON, the decoder's error on a body that is not JSON
delete_label(reply) ==
    IF reply.kind = "error" THEN [raised |-> TRUE, exc |-> ClientError, logs |-> <<>>]
    ELSE IF reply.status = 404
    THEN [raised |-> FALSE, exc |-> NoException,
          logs |-> <<Log("info", <<"Label has been already removed">>)>>]
    ELSE IF reply.status = 200
    THEN [raised |-> FALSE, exc |-> NoException,
          logs |-> <<Log("debug", <<"Label was successfully removed">>)>>]
    ELSE IF Has(reply.message)
    THEN [raised |-> FALSE, exc |-> NoException,
          logs |-> <<Log("error", <<"Unexpected response: ", Get(reply.message)>>)>>]
    ELSE [raised |-> TRUE, exc |-> BodyError(reply.body, "message"), logs |-> <<>>]

\* _handle_reviewed sending the notification only when the label was removed
\* by this very request
_handle_reviewed_deleted_on_removal(r, reply) ==
    LET d == delete_label(reply)
        r1 == [r EXCEPT !.logs = @ \o d.logs]
        pr_title == Get(Get(r.data.pull_request).title)
    IN  IF d.raised THEN Raise(r1, d.exc)
        ELSE IF reply.status # 200 THEN Returned(r1)
        ELSE Call(r1, "send_ready", SendCall(ReadyMessage(pr_title), DEFAULT_SLACK_CHANNEL))

\* _handle_reviewed taking a label that is already gone as the sign that
\* another request has sent the notification
_handle_reviewed_deleted_once(r, reply) ==
    LET d == delete_label(reply)
        r1 == [r EXCEPT !.logs = @ \o d.logs]
        pr_title == Get(Get(r.data.pull_request).title)
    IN  IF d.raised THEN Raise(r1, d.exc)
        ELSE IF reply.status = 404 THEN Returned(r1)
        ELSE Call(r1, "send_ready", SendCall(ReadyMessage(pr_title), DEFAULT_SLACK_CHANNEL))

\* main.py 48-53: from the DELETE's reply up to the awaited send
_handle_reviewed_deleted(r, reply) ==
    LET d == delete_label(reply)
        r1 == [r EXCEPT !.logs = @ \o d.logs]
        pr_title == Get(Get(r.data.pull_request).title)
    IN  IF d.raised THEN Raise(r1, d.exc)
        ELSE Call(r1, "send_ready", SendCall(ReadyMessage(pr_title), DEFAULT_SLACK_CHANNEL))

\* main.py 35-36 and 52-53: the awaited send comes back
_handle_sent(r, reply) == IF reply.kind = "error" THEN Raise(r, ClientError) ELSE Returned(r)

\* main.py 66: once the branch taken has returned, the handler answers
Respond(r) ==
    IF r.pc = "returned" THEN [r EXCEPT !.pc = "done", !.response = OkResponse] ELSE r

\* str(action) of an f-string: the action, or "None" for data.get's default
Str(action) == IF Has(action) THEN Get(action) ELSE "None"

\* handle_pr_event taking every action but "submitted" for "labeled"
handle_pr_event_else_labeled(data) ==
    LET r == Accessed(Started(data), <<"action">>)
        action == data.action
    IN  IF action = Some("submitted") THEN Respond(_handle_reviewed(r))
        ELSE Respond(_handle_labeled(r))

\* main.py 56-66, up to the first awaited outbound call
handle_pr_event(data) ==
    LET r == Accessed(Started(data), <<"action">>)
        action == data.action
    IN  IF action = Some("labeled") THEN Respond(_handle_labeled(r))
        ELSE IF action = Some("submitted") THEN Respond(_handle_reviewed(r))
        ELSE Respond(Returned(Logged(r, "debug", <<"Unknown action ", Str(action)>>)))

\* ------------------------------------------------- dispatcher of src/app.py
\* app.py 40-45, in the order the keys are accessed
AppLabeledAccesses ==
    <<"label", "pull_request", "pull_request.title", "pull_request.html_url",
      "pull_request.user", "pull_request.user.login", "label.name">>

\* app.py 47-49 and 51-52
AcceptUrl(review_id) == BASE_URL \o "accept/" \o ToString(review_id)
AppLabeledMessage(title, user, accept_url) ==
    <<"@here PR _", title, "_ by *", user, "* is waiting for review ", accept_url>>

\* app.py 46: insert_new_review()
InsertCall == [op |-> "insert_new_review"]
IsInsert(call) == call.op = "insert_new_review"
\* app.py 46-49: what the awaited call hands to the handler: an id, which goes
\* into the accept link, or an exception, which the handler does not catch
InsertReplies == {TransportError} \cup [kind : {"response"}, review_id : 1..MaxReviewId]
DatabaseError == [type |-> "DatabaseError", arg |-> ""]

\* app.py 35-46, up to the awaited insert_new_review
app_handle_pr_event(data) ==
    LET r == Accessed([Started(data) EXCEPT !.app = "app.py"], <<"action">>)
        r1 == Accessed(r, AppLabeledAccesses)
    IN  IF data.action = Some("labeled")
        THEN IF FirstMissing(data, AppLabeledAccesses) # 0
             THEN RaiseMissing(r1, AppLabeledAccesses)
             ELSE IF Get(Get(data.label).name) = DEFAULT_LABEL_NAME
             THEN Call(r1, "insert", InsertCall)
             ELSE Respond(Returned(r1))
        ELSE Respond(Returned(r))

\* app.py 46-57: from the insert's reply to the response; the send is a plain
\* call, over (with sent as its outcome) before the handler goes on
app_handle_pr_event_inserted(r, reply, sent) ==
    IF reply.kind = "error" THEN Raise(r, DatabaseError)
    ELSE LET pr == Get(r.data.pull_request)
             title == Get(pr.title)
             page_url == Get(pr.html_url)
             user == Get(Get(pr.user).login)
             message == AppLabeledMessage(title, user, AcceptUrl(reply.review_id))
             r1 == Call(Logged(r, "debug", <<"Sending notification about ", page_url>>),
                        "send_labeled", SendCall(message, DEFAULT_SLACK_CHANNEL))
             r2 == Replied(r1, sent)
         IN  IF sent.kind = "error" THEN Raise(r2, ClientError)
             ELSE Respond(Returned(r2))

\* ------------------------------------------------------------- OAuth login
RedirectUris == {"/", "/dashboard", "/settings"}
Codes == {"code1"}
Tokens == {"token1", "token2"}
Queries == [code : Opt(Codes), redirect_uri : Opt(RedirectUris)]

EmptySession == [redirect_uri |-> None, token |-> None]
EmptyQuery == [code |-> None, redirect_uri |-> None]

\* main.py 139: github.get_authorize_url(scope='user:email')
AuthorizeUrl == "https://github.com/login/oauth/authorize?scope=user:email"

\* web.HTTPFound(location)
HTTPFound(location) == [status |-> 302, location |-> location]
NoRedirect == [status |-> 0, location |-> ""]

NoReply == [kind |-> ""]
AuthIdle == [pc |-> "idle", query |-> EmptyQuery, reply |-> NoReply, response |-> NoRedirect]

\* dict.get(key, default) and the value dict.pop(key, default) returns
GetOr(o, default) == IF Has(o) THEN Get(o) ELSE default

\* The code-for-token exchange returns a token or raises.
ExchangeReplies == {TransportError} \cup [kind : {"response"}, token : Tokens]

\* main.py 129-142, up to the awaited token exchange: the handler's state and
\* the session it leaves
github_auth(sess, query) ==
    IF ~Has(query.code)
    THEN LET redirect_uri == GetOr(query.redirect_uri, "/")
         IN  [auth |-> [AuthIdle EXCEPT !.pc = "done", !.query = query,
                                        !.response = HTTPFound(AuthorizeUrl)],
              session |-> [sess EXCEPT !.redirect_uri = Some(redirect_uri)]]
    ELSE [auth |-> [AuthIdle EXCEPT !.pc = "exchange", !.query = query],
          session |-> sess]

\* github_auth reading the stashed target with get, not pop
github_auth_exchanged_get(sess, a, reply) ==
    IF reply.kind = "error"
    THEN [auth |-> [a EXCEPT !.pc = "failed"], session |-> sess]
    ELSE LET next_uri == GetOr(sess.redirect_uri, "/")
         IN  [auth |-> [a EXCEPT !.pc = "done", !.response = HTTPFound(next_uri)],
              session |-> [sess EXCEPT !.token = Some(reply.token)]]

\* github_auth taking the stashed target out of the session before it knows
\* that the exchange succeeded
github_auth_exchanged_pops_first(sess, a, reply) ==
    IF reply.kind = "error"
    THEN [auth |-> [a EXCEPT !.pc = "failed"],
          session |-> [sess EXCEPT !.redirect_uri = None]]
    ELSE LET next_uri == GetOr(sess.redirect_uri, "/")
         IN  [auth |-> [a EXCEPT !.pc = "done", !.response = HTTPFound(next_uri)],
              session |-> [sess EXCEPT !.token = Some(reply.token),
                                      !.redirect_uri = None]]

\* main.py 142-147: from the exchange's reply to the redirect
github_auth_exchanged(sess, a, reply) ==
    IF reply.kind = "error"
    THEN [auth |-> [a EXCEPT !.pc = "failed"], session |-> sess]
    ELSE LET next_uri == GetOr(sess.redirect_uri, "/")
         IN  [auth |-> [a EXCEPT !.pc = "done", !.response = HTTPFound(next_uri)],
              session |-> [sess EXCEPT !.token = Some(reply.token),
                                      !.redirect_uri = None]]

\* ------------------------------------------------------------- healthcheck
HEALTHCHECK_INTERVAL == 60
Endpoints == {"https://hc.example/ping"}

NoLog == Log("", <<>>)
\* main.py 125-126: the task start_healthcheck creates at startup
HealthcheckCreated(endpoint) ==
    [pc |-> "created", endpoint |-> endpoint, pinged |-> FALSE, timer |-> None,
     reply |-> NoReply, logged |-> NoLog]

\* The monitoring endpoint answers with a status and a text, or the GET raises.
HealthcheckReplies ==
    {TransportError} \cup [kind : {"response"}, status : {200, 500}, text : {"down"}]

\* main.py 116-118: one turn of the loop, up to the awaited GET
healthcheck_ping(h) ==
    [h EXCEPT !.pc = "get", !.pinged = TRUE, !.timer = None,
              !.logged = Log("debug", <<"Sending healthcheck...">>)]

\* healthcheck without the test on the endpoint
healthcheck_unconditional(h) == healthcheck_ping(h)

\* main.py 109-118: the task's first run, up to the awaited GET
healthcheck(h) ==
    IF ~Has(h.endpoint)
    THEN [h EXCEPT !.pc = "exited",
                   !.logged = Log("info", <<"Healthcheck service is disabled">>)]
    ELSE healthcheck_ping(h)

\* healthcheck giving up at the first status other than 200
healthcheck_replied_stops(h, reply) ==
    IF reply.kind = "error" THEN [h EXCEPT !.pc = "crashed", !.reply = reply]
    ELSE IF reply.status # 200
    THEN [h EXCEPT !.pc = "exited", !.reply = reply,
                   !.logged = Log("error", <<"Request failed ", reply.text>>)]
    ELSE [h EXCEPT !.pc = "sleep", !.reply = reply, !.timer = Some(HEALTHCHECK_INTERVAL)]

\* main.py 118-122: from the GET's reply up to the awaited sleep
healthcheck_replied(h, reply) ==
    IF reply.kind = "error" THEN [h EXCEPT !.pc = "crashed", !.reply = reply]
    ELSE IF reply.status # 200
    THEN [h EXCEPT !.pc = "sleep", !.reply = reply, !.timer = Some(HEALTHCHECK_INTERVAL),
                   !.logged = Log("error", <<"Request failed ", reply.text>>)]
    ELSE [h EXCEPT !.pc = "sleep", !.reply = reply, !.timer = Some(HEALTHCHECK_INTERVAL)]

\* main.py 122 and 115-118: the sleep is over, the loop takes its next turn
healthcheck_woke(h) == healthcheck_ping(h)

\* ------------------------------------------------------------- actions
Tasks == DOMAIN req
Ended(r) == r.pc \in {"done", "failed"}
authVars == <<session, auth>>
hookVars == <<req, labelled>>
vars == <<req, labelled, session, auth, hc>>

\* POST /payload arrives with body data
HandlePrEvent(t, data) ==
    /\ req[t].pc = "idle"
    /\ req' = [req EXCEPT ![t] = handle_pr_event(data)]
    /\ UNCHANGED <<labelled, authVars, hc>>

\* the task is suspended in an outbound call
Suspended(r) == r.pc \in {"search", "delete", "send_labeled", "send_ready"}

\* one connection for the whole process: a reply is taken only while no other
\* task is waiting for its own
SearchReturns_one_connection(t, reply) ==
    /\ req[t].pc = "search"
    /\ \A u \in Tasks \ {t} : ~Suspended(req[u])
    /\ req' = [req EXCEPT ![t] = Respond(_handle_reviewed_searched(Replied(req[t], reply), reply))]
    /\ UNCHANGED <<labelled, authVars, hc>>

\* the search request of is_pr_approved comes back
SearchReturns(t, reply) ==
    /\ req[t].pc = "search"
    /\ req' = [req EXCEPT ![t] = Respond(_handle_reviewed_searched(Replied(req[t], reply), reply))]
    /\ UNCHANGED <<labelled, authVars, hc>>

\* the DELETE request of delete_label comes back
DeleteReturns(t, reply) ==
    LET issue == Get(Get(req[t].data.pull_request).number)
    IN  /\ req[t].pc = "delete"
        /\ reply \in GithubDeleteReplies(labelled, issue)
        /\ req' = [req EXCEPT ![t] = Respond(_handle_reviewed_deleted(Replied(req[t], reply), reply))]
        /\ labelled' = GithubAfterDelete(labelled, issue, reply)
        /\ UNCHANGED <<authVars, hc>>

\* the chat client's send comes back
SendReturns(t, reply) ==
    /\ req[t].pc \in {"send_labeled", "send_ready"}
    /\ req' = [req EXCEPT ![t] = Respond(_handle_sent(Replied(req[t], reply), reply))]
    /\ UNCHANGED <<labelled, authVars, hc>>

\* the request is over (answered, or failed): the task ends
Close(t) ==
    /\ Ended(req[t])
    /\ req' = [req EXCEPT ![t] = Idle]
    /\ UNCHANGED <<labelled, authVars, hc>>

\* POST /payload arrives at the dispatcher of src/app.py
AppHandlePrEvent(t, data) ==
    /\ req[t].pc = "idle"
    /\ req' = [req EXCEPT ![t] = app_handle_pr_event(data)]
    /\ UNCHANGED <<labelled, authVars, hc>>

\* insert_new_review comes back; the handler sends and answers
InsertReturns(t, reply, sent) ==
    /\ req[t].pc = "insert"
    /\ req' = [req EXCEPT ![t] = app_handle_pr_event_inserted(Replied(req[t], reply), reply, sent)]
    /\ UNCHANGED <<labelled, authVars, hc>>

\* GET /auth arrives with the query string
GithubAuth(query) ==
    /\ auth.pc = "idle"
    /\ auth' = github_auth(session, query).auth
    /\ session' = github_auth(session, query).session
    /\ UNCHANGED <<hookVars, hc>>

\* the token exchange comes back
ExchangeReturns(reply) ==
    /\ auth.pc = "exchange"
    /\ auth' = github_auth_exchanged(session, [auth EXCEPT !.reply = reply], reply).auth
    /\ session' = github_auth_exchanged(session, [auth EXCEPT !.reply = reply], reply).session
    /\ UNCHANGED <<hookVars, hc>>

\* the /auth request is over
AuthClose ==
    /\ auth.pc \in {"done", "failed"}
    /\ auth' = AuthIdle
    /\ UNCHANGED <<session, hookVars, hc>>

\* the healthcheck task runs for the first time
HealthcheckRuns ==
    /\ hc.pc = "created"
    /\ hc' = healthcheck(hc)
    /\ UNCHANGED <<hookVars, authVars>>

\* the GET to the monitoring endpoint comes back
HealthcheckReturns(reply) ==
    /\ hc.pc = "get"
    /\ hc' = healthcheck_replied(hc, reply)
    /\ UNCHANGED <<hookVars, authVars>>

\* a supervisor that starts the loop again once the task has ended
HealthcheckWakes_restarts ==
    /\ hc.pc \in {"sleep", "crashed"}
    /\ hc' = healthcheck_woke(hc)
    /\ UNCHANGED <<hookVars, authVars>>

\* asyncio.sleep comes back
HealthcheckWakes ==
    /\ hc.pc = "sleep"
    /\ hc' = healthcheck_woke(hc)
    /\ UNCHANGED <<hookVars, authVars>>

Init ==
    /\ req = [t \in {"t1"} |-> Idle]
    /\ labelled \in SUBSET Issues
    /\ session = EmptySession
    /\ auth = AuthIdle
    /\ hc \in {HealthcheckCreated(e) : e \in Opt(Endpoints)}

Receive == \E t \in Tasks : \E data \in Payloads : HandlePrEvent(t, data)
Searched == \E t \in Tasks : \E reply \in SearchReplies : SearchReturns(t, reply)
Deleted == \E t \in Tasks : \E reply \in DeleteReplies : DeleteReturns(t, reply)
Sent == \E t \in Tasks : \E reply \in NotifierReplies : SendReturns(t, reply)
Closed == \E t \in Tasks : Close(t)

Next == Receive \/ Searched \/ Deleted \/ Sent \/ Closed

\* the webhook dispatcher
Spec == Init /\ [][Next]_vars

AppReceive == \E t \in Tasks : \E data \in Payloads : AppHandlePrEvent(t, data)
Inserted ==
    \E t \in Tasks : \E reply \in InsertReplies : \E sent \in NotifierReplies :
        InsertReturns(t, reply, sent)

NextDispatchers == Next \/ AppReceive \/ Inserted

\* the two dispatchers of the repository, each taking webhook requests
SpecDispatchers == Init /\ [][NextDispatchers]_vars

AuthRequest == \E query \in Queries : GithubAuth(query)
Exchanged == \E reply \in ExchangeReplies : ExchangeReturns(reply)

NextAuth == AuthRequest \/ Exchanged \/ AuthClose

\* the OAuth login flow
SpecAuth == Init /\ [][NextAuth]_vars

\* The running service: the healthcheck task next to the request handlers,
\* with a few requests of each kind.
ServicePayloads ==
    {[action |-> Some("labeled"), label |-> Some([name |-> Some(DEFAULT_LABEL_NAME)]),
      pull_request |-> Some(FullPullRequest), review |-> None],
     [action |-> Some("submitted"), label |-> None,
      pull_request |-> Some(FullPullRequest), review |-> Some([state |-> Some("approved")])],
     [action |-> Some("submitted"), label |-> None,
      pull_request |-> Some(FullPullRequest), review |-> Some([state |-> Some("commented")])],
     [action |-> Some("opened"), label |-> None,
      pull_request |-> Some(FullPullRequest), review |-> None]}
ServiceQueries ==
    {[code |-> None, redirect_uri |-> Some("/dashboard")],
     [code |-> Some("code1"), redirect_uri |-> None]}

ServiceReceive == \E t \in Tasks : \E data \in ServicePayloads : HandlePrEvent(t, data)
ServiceAuthRequest == \E query \in ServiceQueries : GithubAuth(query)
HealthcheckReturned == \E reply \in HealthcheckReplies : HealthcheckReturns(reply)

NextHealthcheck == HealthcheckRuns \/ HealthcheckReturned \/ HealthcheckWakes

NextService ==
    \/ NextHealthcheck
    \/ ServiceReceive \/ Searched \/ Deleted \/ Sent \/ Closed
    \/ ServiceAuthRequest \/ Exchanged \/ AuthClose

SpecService == Init /\ [][NextService]_vars

\* The service with the healthcheck task kept going: the event loop runs a
\* task that is ready (its first run, its wake-up when the sleep is over), and
\* the monitoring endpoint's reply, or the failure of the connection, arrives.
SpecServiceFair ==
    /\ SpecService
    /\ WF_vars(HealthcheckRuns)
    /\ WF_vars(HealthcheckReturned)
    /\ WF_vars(HealthcheckWakes)

\* Two webhook requests in flight at once, next to the healthcheck task; the
\* pull request they are about carries the review label or not.
InitConc ==
    /\ req = [t \in {"t1", "t2"} |-> Idle]
    /\ labelled \in SUBSET {Get(FullPullRequest.number)}
    /\ session = EmptySession
    /\ auth = AuthIdle
    /\ hc = HealthcheckCreated(Some("https://hc.example/ping"))

\* a reply to the outbound call of task t arrives
Resumes(t) ==
    \/ \E reply \in SearchReplies : SearchReturns(t, reply)
    \/ \E reply \in DeleteReplies : DeleteReturns(t, reply)
    \/ \E reply \in NotifierReplies : SendReturns(t, reply)

NextConc ==
    \/ ServiceReceive \/ Searched \/ Deleted \/ Sent \/ Closed
    \/ NextHealthcheck

SpecConc == InitConc /\ [][NextConc]_vars

\* The calls of the second request are answered; nothing is assumed of the
\* first request's calls or of the healthcheck's, which may never return.
SpecConcFair == SpecConc /\ WF_vars(Resumes("t2"))

\* ------------------------------------------------------------- properties
IsLabeled(r) == r.data.action = Some("labeled")
IsSubmitted(r) == r.data.action = Some("submitted")
\* the request has been taken up by the handler
Taken(r) == r.pc # "idle"

\* The payload has every field its event kind is documented with.
WellFormed(data) ==
    /\ data.action = Some("labeled") => FirstMissing(data, LabeledAccesses) = 0
    /\ data.action = Some("submitted") =>
          FirstMissing(data, ReviewedAccesses \o TitleAccesses) = 0

LabelMatches(r) ==
    Present(r.data, "label.name") /\ Get(Get(r.data.label).name) = DEFAULT_LABEL_NAME
ReviewApproved(r) ==
    Present(r.data, "review.state") /\ Get(Get(r.data.review).state) = "approved"

Sends(r) == {i \in 1..Len(r.calls) : IsSend(r.calls[i])}
Searches(r) == {i \in 1..Len(r.calls) : IsSearch(r.calls[i])}
Deletes(r) == {i \in 1..Len(r.calls) : IsDelete(r.calls[i])}

\* The i-th outbound call came back failed: the transport raised, the search
\* answered with an error body (no total_count), the DELETE with a status
\* other than 200.
CallFailed(r, i) ==
    \/ r.replies[i].kind = "error"
    \/ IsSearch(r.calls[i]) /\ ~Has(r.replies[i].total_count)
    \/ IsDelete(r.calls[i]) /\ r.replies[i].status # 200

\* The search came back with a result count, and which.
SearchCounted(r) ==
    /\ IsSubmitted(r)
    /\ Len(r.replies) >= 1
    /\ r.replies[1].kind = "response"
    /\ Has(r.replies[1].total_count)
SearchCount(r) == Get(r.replies[1].total_count)

\* C1: every POST to /payload with a well-formed body, whichever branch it
\* takes, ends with handle_pr_event returning 200 "Ok".
C1_EveryPostAnswersOk ==
    \A t \in Tasks :
        Ended(req[t]) /\ WellFormed(req[t].data) =>
            req[t].pc = "done" /\ req[t].response = OkResponse

\* C2: when an outbound call of a webhook request has failed, the handler
\* still ends by returning "Ok".
C2_OutboundFailureAcknowledged ==
    \A t \in Tasks :
        Ended(req[t]) /\ (\E i \in 1..Len(req[t].replies) : CallFailed(req[t], i)) =>
            req[t].pc = "done" /\ req[t].response = OkResponse

\* C3: a "labeled" request whose label is the configured one issues exactly
\* one send, to the default channel, with a text that contains the payload's
\* title, author login and URL; no further send follows in that request.
C3_LabeledSendsOnce ==
    \A t \in Tasks :
        LET r == req[t]
        IN  Taken(r) /\ IsLabeled(r) /\ WellFormed(r.data) /\ LabelMatches(r) =>
                /\ Len(r.calls) = 1
                /\ IsSend(r.calls[1])
                /\ r.calls[1].channel = DEFAULT_SLACK_CHANNEL
                /\ Contains(r.calls[1].text, Get(Get(r.data.pull_request).title))
                /\ Contains(r.calls[1].text,
                            Get(Get(Get(r.data.pull_request).user).login))
                /\ Contains(r.calls[1].text, Get(Get(r.data.pull_request).html_url))

C3_Witness ==
    \E t \in Tasks :
        /\ req[t].pc = "done"
        /\ IsLabeled(req[t])
        /\ LabelMatches(req[t])
        /\ Len(req[t].replies) = 1
        /\ Cardinality(Sends(req[t])) = 1

\* C4: a "labeled" request whose label name is not the configured one issues
\* no send (and no other outbound call).
C4_OtherLabelSendsNothing ==
    \A t \in Tasks :
        LET r == req[t]
        IN  /\ Taken(r)
            /\ IsLabeled(r)
            /\ Present(r.data, "label.name")
            /\ ~LabelMatches(r)
            => r.calls = <<>>

C4_Witness ==
    \E t \in Tasks :
        /\ req[t].pc = "done"
        /\ IsLabeled(req[t])
        /\ WellFormed(req[t].data)
        /\ Get(Get(req[t].data.label).name) = "bug"

\* C5: a "submitted" request whose review state is not "approved" issues no
\* approval search, no label DELETE and no send.
C5_NotApprovedCallsNothing ==
    \A t \in Tasks :
        LET r == req[t]
        IN  /\ Taken(r)
            /\ IsSubmitted(r)
            /\ Present(r.data, "review.state")
            /\ ~ReviewApproved(r)
            => Searches(r) = {} /\ Deletes(r) = {} /\ Sends(r) = {}

C5_Witness ==
    \E t \in Tasks :
        /\ req[t].pc = "done"
        /\ IsSubmitted(req[t])
        /\ WellFormed(req[t].data)
        /\ Get(Get(req[t].data.review).state) = "commented"

\* C6: an approved "submitted" request whose search came back with a count
\* of zero issues no label DELETE and no send.
C6_ZeroResultsKeepsLabel ==
    \A t \in Tasks :
        LET r == req[t]
        IN  SearchCounted(r) /\ ReviewApproved(r) /\ SearchCount(r) = 0 =>
                Deletes(r) = {} /\ Sends(r) = {} /\ r.pc = "done"

C6_Witness ==
    \E t \in Tasks :
        /\ SearchCounted(req[t])
        /\ SearchCount(req[t]) = 0
        /\ req[t].pc = "done"
        /\ Cardinality(Searches(req[t])) = 1

\* The DELETE's reply is one delete_label is documented to take without
\* raising: any response.
DeleteAnswered(r) ==
    /\ Len(r.calls) >= 2
    /\ IsDelete(r.calls[2])
    /\ Len(r.replies) >= 2
    /\ r.replies[2].kind = "response"

HasLog(r, level, msg) == \E i \in 1..Len(r.logs) : r.logs[i] = Log(level, msg)

\* C7 as claimed: an approved "submitted" request whose search came back
\* with at least one result ends having issued exactly the search, the DELETE
\* for pull_request.number and the "ready to merge" send, in this order.
C7_SearchDeleteNotify ==
    \A t \in Tasks :
        LET r == req[t]
        IN  SearchCounted(r) /\ ReviewApproved(r) /\ SearchCount(r) >= 1 /\ Ended(r) =>
                r.calls = <<SearchCall(Get(Get(r.data.pull_request).title)),
                            DeleteCall(Get(Get(r.data.pull_request).number)),
                            SendCall(ReadyMessage(Get(Get(r.data.pull_request).title)),
                                     DEFAULT_SLACK_CHANNEL)>>

\* C7 as amended: once the search has come back with at least one result, the
\* request has issued the search and then the DELETE for pull_request.number,
\* each once; the "ready to merge" send is issued, once and as the third
\* call, when the DELETE has come back and delete_label returned normally (a
\* 200, a 404, or another status with a message body), and is not issued
\* before the DELETE came back nor when delete_label raised.
C7_SearchDeleteThenNotifyUnlessRaised ==
    \A t \in Tasks :
        LET r == req[t]
            pr == Get(r.data.pull_request)
        IN  SearchCounted(r) /\ ReviewApproved(r) /\ SearchCount(r) >= 1 =>
                /\ Len(r.calls) \in {2, 3}
                /\ r.calls[1] = SearchCall(Get(pr.title))
                /\ r.calls[2] = DeleteCall(Get(pr.number))
                /\ Len(r.calls) = 3 =>
                      r.calls[3] = SendCall(ReadyMessage(Get(pr.title)),
                                            DEFAULT_SLACK_CHANNEL)
                /\ Len(r.calls) = 3 <=>
                      /\ DeleteAnswered(r)
                      /\ \/ r.replies[2].status \in {200, 404}
                         \/ Has(r.replies[2].message)

C7_Witness ==
    \E t \in Tasks :
        /\ req[t].pc = "done"
        /\ SearchCounted(req[t])
        /\ SearchCount(req[t]) = 2
        /\ Get(Get(req[t].data.pull_request).number) = 2
        /\ Len(req[t].calls) = 3
        /\ Len(req[t].replies) = 3

\* C8: whatever status the DELETE is answered with, delete_label has issued
\* that one DELETE and returns without raising: a 404 is logged as the label
\* being removed already, a 200 as removed, any other status as an error.
C8_DeleteLabelNeverRaises ==
    \A t \in Tasks :
        LET r == req[t]
        IN  DeleteAnswered(r) =>
                /\ Cardinality(Deletes(r)) = 1
                /\ ~(r.pc = "failed" /\ Len(r.replies) = 2)
                /\ r.replies[2].status = 404 =>
                      HasLog(r, "info", <<"Label has been already removed">>)
                /\ r.replies[2].status = 200 =>
                      HasLog(r, "debug", <<"Label was successfully removed">>)
                /\ r.replies[2].status \notin {200, 404} =>
                      \E i \in 1..Len(r.logs) : r.logs[i].level = "error"

\* C9: a request whose action is neither "labeled" nor "submitted", or is
\* absent, returns having issued no outbound call and read no payload key
\* but action.
C9_UnknownActionNoOp ==
    \A t \in Tasks :
        LET r == req[t]
        IN  Taken(r) /\ ~IsLabeled(r) /\ ~IsSubmitted(r) =>
                /\ r.calls = <<>>
                /\ r.reads = {"action"}
                /\ r.pc = "done"
                /\ r.logs = <<Log("debug", <<"Unknown action ", Str(r.data.action)>>)>>

C9_Witness ==
    \E t \in Tasks :
        /\ req[t].pc = "done"
        /\ req[t].data.action = None
        /\ req[t].data.label = Some([name |-> Some(DEFAULT_LABEL_NAME)])
        /\ req[t].data.pull_request = Some(FullPullRequest)
        /\ req[t].data.review = Some([state |-> Some("approved")])

\* C10: a /auth request without a code stores the requested redirect_uri
\* ("/" when the query has none) in the session and redirects to the
\* authorize URL; a /auth request with a code changes nothing until its
\* token exchange has come back, and when that succeeded it stores the token
\* obtained, removes the stashed redirect target and redirects to that
\* target, or to "/" when the session had none.
C10_OAuthRoundTrip ==
    [][ /\ auth.pc = "idle" /\ auth'.pc = "done" =>
            /\ ~Has(auth'.query.code)
            /\ session'.redirect_uri =
                  Some(IF Has(auth'.query.redirect_uri)
                       THEN Get(auth'.query.redirect_uri) ELSE "/")
            /\ session'.token = session.token
            /\ auth'.response = [status |-> 302, location |-> AuthorizeUrl]
        /\ auth.pc = "idle" /\ auth'.pc = "exchange" =>
            Has(auth'.query.code) /\ session' = session
        /\ auth.pc = "exchange" /\ auth'.pc = "done" =>
            /\ auth'.reply.kind = "response"
            /\ session'.token = Some(auth'.reply.token)
            /\ session'.redirect_uri = None
            /\ auth'.response =
                  [status |-> 302,
                   location |-> IF Has(session.redirect_uri)
                                THEN Get(session.redirect_uri) ELSE "/"]
      ]_vars

C10_Witness ==
    /\ auth.pc = "done"
    /\ Has(auth.query.code)
    /\ auth.response = [status |-> 302, location |-> "/dashboard"]
    /\ session = [redirect_uri |-> None, token |-> Some("token2")]

\* C11: with no healthcheck endpoint configured, the first run of the
\* healthcheck task ends it (logging that the service is disabled), it stays
\* ended, and no GET to a monitoring endpoint is ever issued.
C11_DisabledHealthcheckExits ==
    /\ [](~Has(hc.endpoint) => hc.pc \in {"created", "exited"} /\ ~hc.pinged)
    /\ [][~Has(hc.endpoint) /\ hc' # hc =>
            /\ hc.pc = "created"
            /\ hc'.pc = "exited"
            /\ hc'.logged = Log("info", <<"Healthcheck service is disabled">>)]_vars

C11_Witness ==
    /\ ~Has(hc.endpoint)
    /\ hc.pc = "exited"
    /\ ~hc.pinged
    /\ \E t \in Tasks : req[t].pc = "done"

\* the healthcheck task issues a GET
Pings == hc'.pc = "get" /\ hc.pc # "get"

\* C12 as claimed: with an endpoint configured the healthcheck task never
\* ends and issues a GET infinitely often.
C12_PingsForever ==
    Has(hc.endpoint) => [](hc.pc \notin {"exited", "crashed"}) /\ []<><<Pings>>_vars

\* C12 as amended: with an endpoint configured the healthcheck task never
\* returns, and ends only by a GET that raised; each of its steps is the first
\* GET, a GET's response followed by one sleep of the configured interval
\* (after an error log when the status is not 200), or the end of that sleep
\* followed by the next GET; so it issues a GET infinitely often unless one
\* raises.
C12_PingsUntilGetRaises ==
    /\ [](Has(hc.endpoint) => hc.pc # "exited")
    /\ [](hc.pc = "crashed" => hc.reply.kind = "error")
    /\ [][Has(hc.endpoint) /\ hc' # hc =>
            \/ hc.pc = "created" /\ hc'.pc = "get"
            \/ /\ hc.pc = "get"
               /\ hc'.reply.kind = "response"
               /\ hc'.pc = "sleep"
               /\ hc'.timer = Some(HEALTHCHECK_INTERVAL)
               /\ hc'.reply.status # 200 =>
                     hc'.logged = Log("error", <<"Request failed ", hc'.reply.text>>)
               /\ hc'.reply.status = 200 => hc'.logged = hc.logged
            \/ hc.pc = "get" /\ hc'.reply.kind = "error" /\ hc'.pc = "crashed"
            \/ hc.pc = "sleep" /\ hc'.pc = "get"]_vars
    /\ Has(hc.endpoint) => []<><<Pings>>_vars \/ <>(hc.pc = "crashed")

C12_Witness ==
    /\ hc.pc = "get"
    /\ hc.reply.kind = "response"
    /\ hc.reply.status = 500

\* the next step of every request being served can be taken
RequestsServed ==
    /\ \A t \in Tasks :
          /\ req[t].pc = "idle" => ENABLED ServiceReceive
          /\ req[t].pc = "search" => ENABLED Searched
          /\ req[t].pc = "delete" => ENABLED Deleted
          /\ req[t].pc \in {"send_labeled", "send_ready"} => ENABLED Sent
          /\ Ended(req[t]) => ENABLED Closed
    /\ auth.pc = "idle" => ENABLED ServiceAuthRequest
    /\ auth.pc = "exchange" => ENABLED Exchanged
    /\ auth.pc \in {"done", "failed"} => ENABLED AuthClose

\* C13: once the healthcheck task has ended by an exception it takes no
\* further step (it is not restarted and pings no more), while every webhook
\* and /auth request can still be received and taken through each of its steps.
C13_CrashedHealthcheckStaysDown ==
    /\ [][hc.pc = "crashed" => hc' = hc]_vars
    /\ [](hc.pc = "crashed" => ~ENABLED NextHealthcheck /\ RequestsServed)

C13_Witness ==
    /\ hc.pc = "crashed"
    /\ \E t \in Tasks : req[t].pc = "done" /\ Len(req[t].calls) = 3
    /\ auth.pc = "done"
    /\ Has(session.token)

\* the next step of a suspended request is there to be taken
NotBlocked(t) ==
    /\ req[t].pc = "idle" => ENABLED ServiceReceive
    /\ req[t].pc = "search" => ENABLED (\E reply \in SearchReplies : SearchReturns(t, reply))
    /\ req[t].pc = "delete" => ENABLED (\E reply \in DeleteReplies : DeleteReturns(t, reply))
    /\ req[t].pc \in {"send_labeled", "send_ready"} =>
          ENABLED (\E reply \in NotifierReplies : SendReturns(t, reply))

\* C14: a step of one task changes no other task (a request's step leaves the
\* other request and the healthcheck as they were, a healthcheck step leaves
\* every request as it was); whatever the other tasks are suspended in, the
\* next step of a request can be taken; and a request whose own calls are
\* answered is handled to its end, answered "Ok" unless it raised, even if the
\* other request and the healthcheck never come back from their calls.
C14_TasksIndependent ==
    /\ [][\A t \in Tasks : req'[t] # req[t] =>
              hc' = hc /\ \A u \in Tasks \ {t} : req'[u] = req[u]]_vars
    /\ [][hc' # hc => req' = req]_vars
    /\ [](\A t \in Tasks : NotBlocked(t))
    /\ [](\A t \in Tasks : req[t].pc = "done" => req[t].response = OkResponse)
    /\ (Taken(req["t2"]) ~> Ended(req["t2"]))

C14_Witness ==
    /\ req["t1"].pc = "search"
    /\ hc.pc = "get"
    /\ req["t2"].pc = "done"
    /\ req["t2"].response = OkResponse
    /\ Len(req["t2"].calls) = 3

\* C15: a "labeled" or "submitted" request whose payload lacks one of the
\* fields of its event kind fails on the missing key, whatever its label name
\* or review state, and has issued no outbound call.
C15_MalformedFailsFast ==
    \A t \in Tasks :
        LET r == req[t]
        IN  (IsLabeled(r) \/ IsSubmitted(r)) /\ Taken(r) /\ ~WellFormed(r.data) =>
                /\ r.pc = "failed"
                /\ r.exc.type = "KeyError"
                /\ r.calls = <<>>

\* The payload has every field its handler reads: a "submitted" event's
\* pull_request.title is read only when the review state is "approved".
FieldsReadPresent(data) ==
    /\ data.action = Some("labeled") => FirstMissing(data, LabeledAccesses) = 0
    /\ data.action = Some("submitted") =>
          /\ FirstMissing(data, ReviewedAccesses) = 0
          /\ Get(Get(data.review).state) = "approved" =>
                FirstMissing(data, TitleAccesses) = 0

\* C15 as amended: a "labeled" request lacking any of its fields, whatever its
\* label name, and a "submitted" request lacking review.state or
\* pull_request.number, or pull_request.title when the state is "approved",
\* fails on the missing key with no outbound call issued; a "submitted" request
\* lacking only pull_request.title whose state is not "approved" is answered
\* "Ok" with no outbound call.
C15_FieldsReadFailFast ==
    \A t \in Tasks :
        LET r == req[t]
        IN  (IsLabeled(r) \/ IsSubmitted(r)) /\ Taken(r) /\ ~WellFormed(r.data) =>
                IF FieldsReadPresent(r.data)
                THEN r.pc = "done" /\ r.response = OkResponse /\ r.calls = <<>>
                ELSE r.pc = "failed" /\ r.exc.type = "KeyError" /\ r.calls = <<>>

C15_Witness ==
    \E t \in Tasks :
        LET r == req[t]
        IN  /\ IsLabeled(r)
            /\ Present(r.data, "label.name")
            /\ ~LabelMatches(r)
            /\ ~Present(r.data, "pull_request.html_url")
            /\ r.pc = "failed"
            /\ r.exc = KeyError("pull_request.html_url")

\* C16: for a search reply that carries a count, is_pr_approved returns TRUE
\* exactly when the count is not zero, and the request goes on to the label
\* DELETE (and only then to the "ready to merge" send) exactly when the count
\* is not zero: a count below REQUIRED_APPROVES gates like one at or above it.
C16_GatedByAnyResult ==
    \A t \in Tasks :
        LET r == req[t]
        IN  SearchCounted(r) /\ ReviewApproved(r) =>
                /\ ~is_pr_approved(r.replies[1]).raised
                /\ is_pr_approved(r.replies[1]).value = (SearchCount(r) # 0)
                /\ (Deletes(r) # {}) = (SearchCount(r) # 0)
                /\ Sends(r) # {} => SearchCount(r) # 0
                /\ SearchCount(r) \in 1..(REQUIRED_APPROVES - 1) =>
                      r.calls[2] = DeleteCall(Get(Get(r.data.pull_request).number))

C16_Witness ==
    \E t \in Tasks :
        /\ SearchCounted(req[t])
        /\ SearchCount(req[t]) = 1
        /\ SearchCount(req[t]) < REQUIRED_APPROVES
        /\ Deletes(req[t]) = {2}
        /\ Sends(req[t]) = {3}
        /\ req[t].pc = "done"

Inserts(r) == {i \in 1..Len(r.calls) : IsInsert(r.calls[i])}
\* a step in the handling of a "labeled" request by task t
LabeledStep(t) == req'[t] # req[t] /\ IsLabeled(req'[t])

\* C17: a step in the handling of a "labeled" request, by either dispatcher,
\* leaves the labels as they are, and the request has issued no search, no
\* DELETE, no insert into a store and at most one send.
C17_LabeledOnlySends ==
    [][\A t \in Tasks : LabeledStep(t) =>
            /\ labelled' = labelled
            /\ Searches(req'[t]) = {} /\ Deletes(req'[t]) = {}
            /\ Inserts(req'[t]) = {}
            /\ Cardinality(Sends(req'[t])) <= 1]_vars

\* the DELETE of the request came back, with an exception or a response
DeleteCameBack(r) == Len(r.calls) >= 2 /\ IsDelete(r.calls[2]) /\ Len(r.replies) >= 2

\* C18: once the label DELETE of an approved request has come back, the
\* "ready to merge" send is issued exactly when delete_label returned without
\* raising: after a 200, after a 404 (logged as already removed) and after any
\* other status whose message was logged as an error; when delete_label
\* raised, the request has failed with that exception and has sent nothing.
C18_NotifiedIffDeleteLabelReturns ==
    \A t \in Tasks :
        LET r == req[t]
            d == delete_label(r.replies[2])
        IN  IsSubmitted(r) /\ DeleteCameBack(r) =>
                /\ (Sends(r) # {}) = ~d.raised
                /\ d.raised => r.pc = "failed" /\ r.exc = d.exc /\ Len(r.calls) = 2
                /\ ~d.raised =>
                      /\ Sends(r) = {3}
                      /\ r.calls[3] = SendCall(ReadyMessage(Get(Get(r.data.pull_request).title)),
                                               DEFAULT_SLACK_CHANNEL)
                /\ r.replies[2].kind = "response" /\ r.replies[2].status = 404 =>
                      /\ HasLog(r, "info", <<"Label has been already removed">>)
                      /\ Sends(r) = {3}
                /\ /\ r.replies[2].kind = "response"
                   /\ r.replies[2].status \notin {200, 404}
                   /\ Has(r.replies[2].message)
                   => /\ HasLog(r, "error", <<"Unexpected response: ", Get(r.replies[2].message)>>)
                      /\ Sends(r) = {3}
                /\ r.replies[2].kind = "error" => Sends(r) = {}

C18_Witness ==
    \E t \in Tasks :
        /\ req[t].pc = "done"
        /\ DeleteCameBack(req[t])
        /\ req[t].replies[2].kind = "response"
        /\ req[t].replies[2].status = 403
        /\ Sends(req[t]) = {3}

\* the approved requests whose search came back with at least one result
ApprovedHooks == {t \in Tasks : SearchCounted(req[t]) /\ ReviewApproved(req[t])
                                /\ SearchCount(req[t]) >= 1}
\* those whose "ready to merge" send has been issued
ReadySent == {t \in ApprovedHooks : Sends(req[t]) # {}}
\* those whose delete_label has returned without raising
LabelDeleteReturned ==
    {t \in ApprovedHooks :
        /\ DeleteCameBack(req[t])
        /\ req[t].replies[2].kind = "response"
        /\ \/ req[t].replies[2].status \in {200, 404}
           \/ Has(req[t].replies[2].message)}
SamePullRequest(t, u) == req[t].data.pull_request = req[u].data.pull_request

\* C19 as claimed: when the approved requests whose search reported a result
\* have ended, each has issued its own DELETE and its own "ready to merge"
\* send, so there are as many notifications as such requests.
C19_OneNotificationPerApproval ==
    (\A t \in ApprovedHooks : Ended(req[t])) =>
        /\ \A t \in ApprovedHooks :
              Cardinality(Deletes(req[t])) = 1 /\ Cardinality(Sends(req[t])) = 1
        /\ Cardinality(ReadySent) = Cardinality(ApprovedHooks)

\* C19 as amended: nothing is deduplicated across requests.  Each approved
\* request whose search reported a result issues its own DELETE, whatever the
\* other requests for the same pull request have done, and its own "ready to
\* merge" send exactly when its own delete_label returned without raising, so
\* there are as many notifications as such returns; of two requests for the
\* same pull request at most one has its DELETE answered 200.
C19_NoDeduplication ==
    /\ \A t \in ApprovedHooks :
          /\ Cardinality(Deletes(req[t])) = 1
          /\ req[t].calls[2] = DeleteCall(Get(Get(req[t].data.pull_request).number))
          /\ Cardinality(Sends(req[t])) <= 1
    /\ ReadySent = LabelDeleteReturned
    /\ Cardinality(ReadySent) = Cardinality(LabelDeleteReturned)
    /\ \A t, u \in LabelDeleteReturned :
          t # u /\ SamePullRequest(t, u) =>
              ~(req[t].replies[2].status = 200 /\ req[u].replies[2].status = 200)

C19_Witness ==
    /\ ApprovedHooks = {"t1", "t2"}
    /\ SamePullRequest("t1", "t2")
    /\ req["t1"].pc = "done" /\ req["t2"].pc = "done"
    /\ ReadySent = {"t1", "t2"}
    /\ req["t1"].replies[2].status = 200
    /\ req["t2"].replies[2].status = 404

\* C20: a /auth request with a code whose token exchange fails ends without
\* a redirect and leaves the session as it was, token and stashed target; the
\* stashed target changes only when a request without a code stashes one or
\* when an exchange succeeds, and the token only when an exchange succeeds, so
\* the next successful exchange on the session redirects to the target that
\* was stashed before the failure.
C20_FailedExchangeKeepsSession ==
    [][ /\ auth.pc = "exchange" /\ auth'.pc # "done" =>
            /\ auth'.pc = "failed"
            /\ auth'.reply.kind = "error"
            /\ auth'.response = NoRedirect
            /\ session' = session
        /\ auth.pc = "failed" => session' = session
        /\ session'.redirect_uri # session.redirect_uri =>
            \/ auth.pc = "idle" /\ ~Has(auth'.query.code)
            \/ auth.pc = "exchange" /\ auth'.reply.kind = "response"
        /\ session'.token # session.token =>
            auth.pc = "exchange" /\ auth'.reply.kind = "response"
        /\ auth.pc = "exchange" /\ auth'.pc = "done" =>
            auth'.response.location = GetOr(session.redirect_uri, "/")
      ]_vars

C20_Witness ==
    /\ auth.pc = "failed"
    /\ Has(auth.query.code)
    /\ auth.reply.kind = "error"
    /\ session = [redirect_uri |-> Some("/dashboard"), token |-> None]

====
